---- MODULE Spec2Model ----
(***************************************************************************)
(* A model of the assertion library dscottboggs/attest (package attest).   *)
(*                                                                         *)
(* A Test wraps the *testing.T of one test unit.  The state is what the    *)
(* assertion calls of that test unit can change or observe: the failed     *)
(* flag of the testing.T, whether the body of the test unit is still       *)
(* running, how many statements of the body have run, and what the last    *)
(* assertion call did (verdicts, diagnostics, returned value).  The        *)
(* operands the body holds (inp) are drawn in the initial state; every     *)
(* action is one assertion call of the body on those operands.             *)
(***************************************************************************)
EXTENDS Integers, Sequences, FiniteSets, TLC

VARIABLES failed, status, pc, last, inp

vars == <<failed, status, pc, last, inp>>

(***************************************************************************)
(* Bounds of the model.                                                    *)
(***************************************************************************)
\* numeric operands range over -MaxNum .. MaxNum
MaxNum == 1
\* a test unit body runs at most MaxStmts assertion statements
MaxStmts == 3
\* HandleMultiple is given at most MaxErrs errors
MaxErrs == 3

(***************************************************************************)
(* Go values held in an interface{}: the dynamic type t, and a payload     *)
(* (n for numbers and for the element of a container, s for strings and    *)
(* for the float NaN).                                                     *)
(***************************************************************************)
V(t, n, s) == [t |-> t, n |-> n, s |-> s]

Str(s) == V("string", 0, s)

Nil == V("nil", 0, "")

NaN(t) == V(t, 0, "NaN")

IntKinds == {"int", "int8", "int16", "int32", "int64"}

FloatKinds == {"float32", "float64"}

\* the types the switch statements of GreaterThan, LessThan, Positive and
\* Negative have a case for
NumericKinds == IntKinds \cup FloatKinds

\* types on which Go's == panics when both operands have that dynamic type
UncomparableTypes == {"[]int", "map[string]int", "func()"}

\* two distinct named types of two packages that are both called pkg
CollidingTypes == {"a/pkg.T", "b/pkg.T"}

IsNaN(v) == v.t \in FloatKinds /\ v.s = "NaN"

NumRange == (0 - MaxNum) .. MaxNum

NumericValues ==
    {V(t, n, "") : t \in NumericKinds, n \in NumRange}
        \cup {NaN(t) : t \in FloatKinds}

\* values of types the ordering and sign checks have no case for
UnsupportedValues ==
    {V("uint", 1, ""), V("complex128", 1, ""), Str("1"), Nil}

StringValues ==
    {Str(ToString(n)) : n \in NumRange} \cup {Str("NaN"), Str("[1]"), Str("x"), Str("int")}

UncomparableValues == {V(t, 1, "") : t \in UncomparableTypes}

CollidingValues == {V(t, 1, "") : t \in CollidingTypes}

(***************************************************************************)
(* package fmt, as far as the library uses it.                             *)
(***************************************************************************)
\* fmt.Sprintf("%T", v): the package NAME qualifies a named type, not the
\* import path, so distinct types can print alike
TypeName(v) ==
    CASE v.t = "nil" -> "<nil>"
      [] v.t \in CollidingTypes -> "pkg.T"
      [] v.t = "error" -> "*errors.errorString"
      [] OTHER -> v.t

\* fmt.Sprintf("%v", v)
Sprint(v) ==
    CASE v.t = "nil" -> "<nil>"
      [] v.t = "string" -> v.s
      [] v.t = "error" -> v.s
      [] IsNaN(v) -> "NaN"
      [] v.t = "[]int" -> "[" \o ToString(v.n) \o "]"
      [] v.t = "map[string]int" -> "map[k:" \o ToString(v.n) \o "]"
      [] v.t = "func()" -> "0x4a" \o ToString(v.n)
      [] v.t = "complex128" -> "(" \o ToString(v.n) \o "+0i)"
      [] OTHER -> ToString(v.n)

\* fmt.Sprintf("%#v", v)
GoString(v) ==
    CASE v.t = "string" -> "\"" \o v.s \o "\""
      [] v.t = "error" -> "&errors.errorString{s:\"" \o v.s \o "\"}"
      [] v.t = "[]int" -> "[]int{" \o ToString(v.n) \o "}"
      [] v.t = "map[string]int" -> "map[string]int{\"k\":" \o ToString(v.n) \o "}"
      [] v.t = "func()" -> "(func())(0x4a" \o ToString(v.n) \o ")"
      [] v.t = "uint" -> "0x" \o ToString(v.n)
      [] OTHER -> Sprint(v)

Verbs == {"%v", "%s", "%d", "%T", "%#v", "%#+v"}

\* the operand of one verb
FormatVerb(verb, v) ==
    CASE verb = "%T" -> TypeName(v)
      [] verb \in {"%#v", "%#+v"} -> GoString(v)
      [] verb = "%s" /\ v.t \notin {"string", "error"} ->
            "%!s(" \o TypeName(v) \o "=" \o Sprint(v) \o ")"
      [] verb = "%d" /\ v.t \notin (IntKinds \cup {"uint"} \cup CollidingTypes) ->
            "%!d(" \o TypeName(v) \o "=" \o Sprint(v) \o ")"
      [] OTHER -> Sprint(v)

\* the format strings of the model, cut at their verbs
Parse(s) ==
    CASE s = "m %v" -> <<"m ", "%v">>
      [] s = "%#v was not positive" -> <<"%#v", " was not positive">>
      [] s = "Function %v didn't cause a panic!" ->
            <<"Function ", "%v", " didn't cause a panic!">>
      [] s = "Function %v caused a panic!" ->
            <<"Function ", "%v", " caused a panic!">>
      [] s = "Fatal error: %s (%#+v)" ->
            <<"Fatal error: ", "%s", " (", "%#+v", ")">>
      [] s = "When aquiring value %#v, got error %s (%#+v)" ->
            <<"When aquiring value ", "%#v", ", got error ", "%s", " (", "%#+v", ")">>
      [] s = "%#v of type %T didn't match the type of %#v, %T; so they can't be compared. " ->
            <<"%#v", " of type ", "%T", " didn't match the type of ", "%#v", ", ", "%T",
              "; so they can't be compared. ">>
      [] s = "Expected %#v (%v) was actually %#v (%v)" ->
            <<"Expected ", "%#v", " (", "%v", ") was actually ", "%#v", " (", "%v", ")">>
      [] s = "received equal values of %#+v, expected to not equal." ->
            <<"received equal values of ", "%#+v", ", expected to not equal.">>
      [] s = "Value (%#v) was less than expected (%#v)." ->
            <<"Value (", "%#v", ") was less than expected (", "%#v", ").">>
      [] s = "Value (%#v) was greater than expected (%#v)." ->
            <<"Value (", "%#v", ") was greater than expected (", "%#v", ").">>
      [] s = "When trying check that %v was greater than %v, found non-numeric types %T and %T." ->
            <<"When trying check that ", "%v", " was greater than ", "%v",
              ", found non-numeric types ", "%T", " and ", "%T", ".">>
      [] s = "Can't check value of %#v: check isn't implemented for type %T" ->
            <<"Can't check value of ", "%#v", ": check isn't implemented for type ", "%T">>
      [] s = "Can't check that %#v is positive: check isn't implemented for type %T" ->
            <<"Can't check that ", "%#v", " is positive: check isn't implemented for type ", "%T">>
      [] s = "Can't check that %#v is negative: check isn't implemented for type %T" ->
            <<"Can't check that ", "%#v", " is negative: check isn't implemented for type ", "%T">>
      [] s = "Got type %T for second argument to Test.Handle(). If more than oneargument is specified, the second one MUST be a string." ->
            <<"Got type ", "%T",
              " for second argument to Test.Handle(). If more than oneargument is specified, the second one MUST be a string.">>
      [] s = "%#+v (%v as a string) was supposed to be similar to %#+v (string: %v)" ->
            <<"%#+v", " (", "%v", " as a string) was supposed to be similar to ", "%#+v",
              " (string: ", "%v", ")">>
      [] s = "%#+v was expected to be nil, but was not!" ->
            <<"%#+v", " was expected to be nil, but was not!">>
      [] s = "Type of %#v wasn't %s." -> <<"Type of ", "%#v", " wasn't ", "%s", ".">>
      [] s = "Type of %#v was %s." -> <<"Type of ", "%#v", " was ", "%s", ".">>
      [] s = "When trying check that %v was greater than %v, found non-numeric types %T and %T" ->
            <<"When trying check that ", "%v", " was greater than ", "%v",
              ", found non-numeric types ", "%T", " and ", "%T">>
      [] s = "Value (%#v) was not positive." -> <<"Value (", "%#v", ") was not positive.">>
      [] s = "Got status %d: %s.\n%s" ->
            <<"Got status ", "%d", ": ", "%s", ".\n", "%s">>
      [] OTHER -> <<s>>

\* what fmt prints for a verb that has no operand left
Missing(verb) ==
    CASE verb = "%T" -> "%!T(MISSING)"
      [] verb = "%s" -> "%!s(MISSING)"
      [] verb = "%d" -> "%!d(MISSING)"
      [] OTHER -> "%!v(MISSING)"

RECURSIVE FormatPieces(_, _, _)
\* the text of the pieces, the k-th argument being the next operand
FormatPieces(pieces, args, k) ==
    IF pieces = <<>> THEN ""
    ELSE IF Head(pieces) \in Verbs
         THEN (IF k <= Len(args) THEN FormatVerb(Head(pieces), args[k])
                                 ELSE Missing(Head(pieces)))
                  \o FormatPieces(Tail(pieces), args, k + 1)
         ELSE Head(pieces) \o FormatPieces(Tail(pieces), args, k)

RECURSIVE ExtraArgs(_, _)
ExtraArgs(args, k) ==
    IF k > Len(args) THEN ""
    ELSE TypeName(args[k]) \o "=" \o Sprint(args[k])
            \o (IF k < Len(args) THEN ", " ELSE "") \o ExtraArgs(args, k + 1)

NumVerbs(pieces) == Cardinality({i \in 1..Len(pieces) : pieces[i] \in Verbs})

\* fmt.Sprintf(format, args...)
Sprintf(format, args) ==
    LET pieces == Parse(format)
        used == NumVerbs(pieces)
    IN  FormatPieces(pieces, args, 1)
            \o (IF Len(args) > used
                THEN "%!(EXTRA " \o ExtraArgs(args, used + 1) \o ")"
                ELSE "")

(***************************************************************************)
(* What one call does: how it ends (it returns, it ends the goroutine of   *)
(* the test unit through runtime.Goexit, or a panic leaves it), how often  *)
(* it marked the testing.T failed, the diagnostics it wrote, and the order  *)
(* of these events (trace).                                                *)
(***************************************************************************)
EffT(outcome, fails, logs, trace) ==
    [outcome |-> outcome, fails |-> fails, logs |-> logs, trace |-> trace]

Eff(outcome, fails, logs) == EffT(outcome, fails, logs, <<>>)

Pass == Eff("returned", 0, <<>>)

\* a run-time panic (failed type assertion, == on an uncomparable type)
\* that nothing in the call recovers
Panic == Eff("panic", 0, <<>>)

\* e1; e2
Then(e1, e2) ==
    IF e1.outcome # "returned" THEN e1
    ELSE EffT(e2.outcome, e1.fails + e2.fails, e1.logs \o e2.logs,
              e1.trace \o e2.trace)

FailTwice == EffT("returned", 2, <<>>, <<"fail", "fail">>)

\* testing.T.Fail: marks the test failed, the body goes on
Fail == EffT("returned", 1, <<>>, <<"fail">>)

\* testing.T.FailNow: marks the test failed and stops the goroutine
FailNow == EffT("goexit", 1, <<>>, <<"failnow">>)

\* fmt.Println, fmt.Printf, log.Println, log.Printf, testing.T.Log: one
\* line on the diagnostic sink
Log(line) == EffT("returned", 0, <<line>>, <<"log">>)

\* testing.T.Error(v): the value on the test log and a soft failure
Error(v) == Then(Log(Sprint(v)), Fail)

\* testing.T.Errorf(format, args...)
Errorf(format, args) == Then(Log(Sprintf(format, args)), Fail)

\* x.(string) succeeds
IsString(v) == v.t = "string"

(***************************************************************************)
(* Test.Attest                                                             *)
(***************************************************************************)
AttestEffNoFail(that, message, formatters) ==
    IF ~that
    THEN IF Len(formatters) = 0
         THEN Log(message)
         ELSE Log(Sprintf(message, formatters))
    ELSE Pass

AttestEff(that, message, formatters) ==
    IF ~that
    THEN Then(IF Len(formatters) = 0
              THEN Log(message)
              ELSE Log(Sprintf(message, formatters)),
              Fail)
    ELSE Pass

(***************************************************************************)
(* Ordering and sign checks                                                *)
(***************************************************************************)
\* x > y and x < y on two values of one numeric kind; every comparison
\* with a NaN is false
NumGt(x, y) == ~IsNaN(x) /\ ~IsNaN(y) /\ x.n > y.n

NumLt(x, y) == ~IsNaN(x) /\ ~IsNaN(y) /\ x.n < y.n

Zero(t) == V(t, 0, "")

\* msg() of GreaterThan and LessThan panics: msgAndFmt[0].(string) fails
MsgPanics(msgAndFmt) == Len(msgAndFmt) > 0 /\ ~IsString(msgAndFmt[1])

\* msg() of GreaterThan and LessThan
Msg(defaultMessage, msgAndFmt) ==
    IF Len(msgAndFmt) = 0 THEN defaultMessage
    ELSE IF Len(msgAndFmt) = 1 THEN msgAndFmt[1].s
    ELSE Sprintf(msgAndFmt[1].s, Tail(msgAndFmt))

GreaterThanCondSwapped(expected, variable) == NumGt(expected, variable)

\* variable.(T) > expected.(T)
GreaterThanCond(expected, variable) == NumGt(variable, expected)

GreaterThanEff(expected, variable, msgAndFmt) ==
    LET defaultMessage ==
            Sprintf("Value (%#v) was less than expected (%#v).", <<variable, expected>>)
    IN  IF variable.t \notin NumericKinds
        THEN Then(Log(Sprintf("When trying check that %v was greater than %v, found non-numeric types %T and %T.",
                              <<expected, variable, expected, variable>>)),
                  Fail)
        ELSE IF expected.t # variable.t \/ MsgPanics(msgAndFmt)
             THEN Panic
             ELSE AttestEff(GreaterThanCond(expected, variable),
                            Msg(defaultMessage, msgAndFmt), <<>>)

LessThanCondNonStrict(expected, variable) == ~NumGt(variable, expected)

\* variable.(T) < expected.(T)
LessThanCond(expected, variable) == NumLt(variable, expected)

LessThanEff(expected, variable, msgAndFmt) ==
    LET defaultMessage ==
            Sprintf("Value (%#v) was greater than expected (%#v).", <<variable, expected>>)
    IN  IF variable.t \notin NumericKinds
        THEN Then(Log(Sprintf("Can't check value of %#v: check isn't implemented for type %T",
                              <<variable, variable>>)),
                  Fail)
        ELSE IF expected.t # variable.t \/ MsgPanics(msgAndFmt)
             THEN Panic
             ELSE AttestEff(LessThanCond(expected, variable),
                            Msg(defaultMessage, msgAndFmt), <<>>)

\* msgAndFmt of Positive and Negative after the len(msgAndFmt) == 0 branch
SignMsg(variable, msgAndFmt) ==
    IF Len(msgAndFmt) = 0
    THEN <<Str("%#v was not positive"), variable>>
    ELSE msgAndFmt

PositiveCondNonStrict(variable) == ~NumLt(variable, Zero(variable.t))

\* variable.(T) > 0
PositiveCond(variable) == NumGt(variable, Zero(variable.t))

PositiveEff(variable, msgAndFmt) ==
    LET m == SignMsg(variable, msgAndFmt)
    IN  IF variable.t \notin NumericKinds
        THEN Then(Log(Sprintf("Can't check that %#v is positive: check isn't implemented for type %T",
                              <<variable, variable>>)),
                  Fail)
        ELSE IF ~IsString(m[1])
             THEN Panic
             ELSE AttestEff(PositiveCond(variable), m[1].s, Tail(m))

NegativeCondNonStrict(variable) == ~NumGt(variable, Zero(variable.t))

\* variable.(T) < 0
NegativeCond(variable) == NumLt(variable, Zero(variable.t))

NegativeEff(variable, msgAndFmt) ==
    LET m == SignMsg(variable, msgAndFmt)
    IN  IF variable.t \notin NumericKinds
        THEN Then(Log(Sprintf("Can't check that %#v is negative: check isn't implemented for type %T",
                              <<variable, variable>>)),
                  Fail)
        ELSE IF ~IsString(m[1])
             THEN Panic
             ELSE AttestEff(NegativeCond(variable), m[1].s, Tail(m))

(***************************************************************************)
(* The test unit                                                           *)
(***************************************************************************)
\* the optional message arguments a call is given: none, one string, one
\* string that holds a verb, a format with an operand, a first argument
\* that is no string
MsgArgs ==
    {<<>>, <<Str("m")>>, <<Str("m %v")>>, <<Str("m %v"), V("int", 1, "")>>,
     <<V("int", 1, "")>>}

\* a function that returns normally, given to AttestPanics / AttestNoPanic
NoPanicFun == [panics |-> FALSE, payload |-> Nil]

\* the status code of a response with no error status
StatusOK == 200

\* the operands of the test body: two values, the optional message
\* arguments, a function, an error; and, for the calls that take them, a
\* condition, a list of errors, the status code of a response and what
\* the callback of AttestOrDo does
Inp(a, b, msg, fun, err) ==
    [a |-> a, b |-> b, msg |-> msg, fun |-> fun, err |-> err,
     that |-> TRUE, errs |-> <<>>, code |-> StatusOK, cb |-> "returns"]

NoCall ==
    [op |-> "none", outcome |-> "returned", fails |-> 0, logs |-> <<>>,
     trace |-> <<>>, ret |-> Nil]

CallForgetful(op, eff, ret) ==
    /\ status = "running"
    /\ pc < MaxStmts
    /\ pc' = pc + 1
    /\ failed' = (eff.fails > 0)
    /\ status' = (CASE eff.outcome = "returned" -> "running"
                    [] eff.outcome = "goexit" -> "aborted"
                    [] OTHER -> "panicked")
    /\ last' = [op |-> op, outcome |-> eff.outcome, fails |-> eff.fails,
                logs |-> eff.logs, trace |-> eff.trace,
                ret |-> IF eff.outcome = "returned" THEN ret ELSE Nil]
    /\ UNCHANGED inp

\* the body of the test unit runs the call op as its next statement
Call(op, eff, ret) ==
    /\ status = "running"
    /\ pc < MaxStmts
    /\ pc' = pc + 1
    /\ failed' = (failed \/ eff.fails > 0)
    /\ status' = (CASE eff.outcome = "returned" -> "running"
                    [] eff.outcome = "goexit" -> "aborted"
                    [] OTHER -> "panicked")
    /\ last' = [op |-> op, outcome |-> eff.outcome, fails |-> eff.fails,
                logs |-> eff.logs, trace |-> eff.trace,
                ret |-> IF eff.outcome = "returned" THEN ret ELSE Nil]
    /\ UNCHANGED inp

\* test := attest.New(t), at the start of a test function
InitTest ==
    /\ failed = FALSE
    /\ status = "running"
    /\ pc = 0
    /\ last = NoCall

\* the kinds the first AttestGreaterThan and AttestPositive have a case
\* for: there is none for int
FirstKinds == NumericKinds \ {"int"}

\* AttestGreaterThan of the first variant: fails if variable < expected,
\* and only logs in the default case
AttestGreaterThanFirstEff(expected, variable) ==
    IF variable.t \notin FirstKinds
    THEN Log(Sprintf("When trying check that %v was greater than %v, found non-numeric types %T and %T",
                     <<expected, variable, expected, variable>>))
    ELSE IF expected.t # variable.t THEN Panic
    ELSE IF NumLt(variable, expected)
         THEN Then(Log(Sprintf("Value (%#v) was less than expected (%#v).",
                               <<variable, expected>>)),
                   Fail)
         ELSE Pass

\* AttestPositive of the first variant: fails if variable < 0, and only
\* logs in the default case
AttestPositiveFirstEff(variable) ==
    IF variable.t \notin FirstKinds
    THEN Log(Sprintf("Can't check that %#v is positive: check isn't implemented for type %T",
                     <<variable, variable>>))
    ELSE IF NumLt(variable, Zero(variable.t))
         THEN Then(Log(Sprintf("Value (%#v) was not positive.", <<variable>>)), Fail)
         ELSE Pass

\* AttestGreaterThan of the second variant: Attest(variable > expected)
AttestGreaterThanEff(expected, variable) ==
    IF variable.t \notin NumericKinds
    THEN Then(Log(Sprintf("When trying check that %v was greater than %v, found non-numeric types %T and %T",
                          <<expected, variable, expected, variable>>)),
              Fail)
    ELSE IF expected.t # variable.t THEN Panic
    ELSE AttestEff(GreaterThanCond(expected, variable),
                   "Value (%#v) was less than expected (%#v).", <<variable, expected>>)

\* AttestPositive of the second variant: Attest(variable > 0)
AttestPositiveEff(variable) ==
    IF variable.t \notin NumericKinds
    THEN Then(Log(Sprintf("Can't check that %#v is positive: check isn't implemented for type %T",
                          <<variable, variable>>)),
              Fail)
    ELSE AttestEff(PositiveCond(variable), "Value (%#v) was not positive.", <<variable>>)

AttestGreaterThanFirst ==
    Call("AttestGreaterThanFirst", AttestGreaterThanFirstEff(inp.a, inp.b), Nil)

AttestPositiveFirst == Call("AttestPositiveFirst", AttestPositiveFirstEff(inp.b), Nil)

AttestGreaterThan == Call("AttestGreaterThan", AttestGreaterThanEff(inp.a, inp.b), Nil)

AttestPositive == Call("AttestPositive", AttestPositiveEff(inp.b), Nil)

GreaterThan == Call("GreaterThan", GreaterThanEff(inp.a, inp.b, inp.msg), Nil)

LessThan == Call("LessThan", LessThanEff(inp.a, inp.b, inp.msg), Nil)

Positive == Call("Positive", PositiveEff(inp.b, inp.msg), Nil)

Negative == Call("Negative", NegativeEff(inp.b, inp.msg), Nil)

(***************************************************************************)
(* SpecOrd: a test body that calls the ordering and sign checks on a pair  *)
(* of operands (expected = inp.a, variable = inp.b).                       *)
(***************************************************************************)
OrdValues == NumericValues \cup UnsupportedValues

InitOrd ==
    /\ InitTest
    /\ inp \in {Inp(a, b, m, NoPanicFun, Nil) : a \in OrdValues, b \in OrdValues, m \in MsgArgs}

NextOrd ==
    \/ GreaterThan \/ LessThan \/ Positive \/ Negative
    \/ AttestGreaterThanFirst \/ AttestPositiveFirst
    \/ AttestGreaterThan \/ AttestPositive

SpecOrd == InitOrd /\ [][NextOrd]_vars

\* a call was given no message or a message whose first argument is a string
MsgWellTyped == ~MsgPanics(inp.msg)

SameKind == inp.a.t = inp.b.t /\ inp.b.t \in NumericKinds

\* the last call returned without marking the test failed
Passed == last.outcome = "returned" /\ last.fails = 0

\* the last call marked the test failed and returned
MarkedFailed == last.outcome = "returned" /\ last.fails >= 1 /\ failed

C2_EqualOperandsFail ==
    (SameKind /\ MsgWellTyped /\ inp.a = inp.b
        /\ last.op \in {"GreaterThan", "LessThan"}) => MarkedFailed

C2_Witness ==
    /\ last.op = "GreaterThan"
    /\ inp.a = V("int16", 1, "") /\ inp.b = inp.a
    /\ last.fails = 1
    /\ last.logs = <<"Value (1) was less than expected (1).">>

\* C3: for a value v of a supported numeric kind, Positive(v) records no
\* failure iff v > 0, Negative(v) records no failure iff v < 0, and v = 0
\* fails both (v is inp.b).
C3_SignVerdicts ==
    (inp.b.t \in NumericKinds /\ MsgWellTyped) =>
        /\ last.op = "Positive" => (Passed <=> (~IsNaN(inp.b) /\ inp.b.n > 0))
        /\ last.op = "Negative" => (Passed <=> (~IsNaN(inp.b) /\ inp.b.n < 0))
        /\ (last.op \in {"Positive", "Negative"} /\ ~Passed) => MarkedFailed
        /\ (last.op \in {"Positive", "Negative"} /\ ~IsNaN(inp.b) /\ inp.b.n = 0)
                => MarkedFailed

C3_Witness ==
    /\ last.op = "Positive"
    /\ inp.b = V("int64", 0, "")
    /\ inp.msg = <<>>
    /\ last.fails = 1
    /\ last.logs = <<"0 was not positive">>

(***************************************************************************)
(* Equality checks                                                         *)
(***************************************************************************)
\* var1 == var2 on two interface{} values: false when the dynamic types
\* differ, a run-time panic when they agree on an uncomparable type, the
\* comparison of the values otherwise (NaN equals nothing)
IfaceEq(var1, var2) ==
    IF var1.t # var2.t THEN "false"
    ELSE IF var1.t \in UncomparableTypes THEN "panic"
    ELSE IF IsNaN(var1) \/ IsNaN(var2) THEN "false"
    ELSE IF var1 = var2 THEN "true" ELSE "false"

\* typeOf(var1) == typeOf(var2)
TypeGate(var1, var2) == TypeName(var1) = TypeName(var2)

EqualsEffLoose(var1, var2, msgAndFormatters) ==
    IF Len(msgAndFormatters) > 0
    THEN IF ~IsString(msgAndFormatters[1]) THEN Panic
         ELSE AttestEff(Sprint(var1) = Sprint(var2),
                        msgAndFormatters[1].s, Tail(msgAndFormatters))
    ELSE AttestEff(Sprint(var1) = Sprint(var2),
                   Sprintf("Expected %#v (%v) was actually %#v (%v)",
                           <<var1, var1, var2, var2>>),
                   <<>>)

EqualsEff(var1, var2, msgAndFormatters) ==
    IF Len(msgAndFormatters) > 0
    THEN IF ~IsString(msgAndFormatters[1]) THEN Panic
         ELSE Then(AttestEff(TypeGate(var1, var2),
                             msgAndFormatters[1].s, Tail(msgAndFormatters)),
                   IF IfaceEq(var1, var2) = "panic" THEN Panic
                   ELSE AttestEff(IfaceEq(var1, var2) = "true",
                                  msgAndFormatters[1].s, Tail(msgAndFormatters)))
    ELSE Then(AttestEff(TypeGate(var1, var2),
                        "%#v of type %T didn't match the type of %#v, %T; so they can't be compared. ",
                        <<var1, var1, var2, var2>>),
              IF IfaceEq(var1, var2) = "panic" THEN Panic
              ELSE AttestEff(IfaceEq(var1, var2) = "true",
                             Sprintf("Expected %#v (%v) was actually %#v (%v)",
                                     <<var1, var1, var2, var2>>),
                             <<>>))

ComparesEffStrict(var1, var2, msgAndFmt) == EqualsEff(var1, var2, msgAndFmt)

ComparesEff(var1, var2, msgAndFmt) ==
    EqualsEff(Str(Sprint(var1)), Str(Sprint(var2)), msgAndFmt)

SimilarToEff(var1, var2, msgAndFmt) == ComparesEff(var1, var2, msgAndFmt)

NotEqualEffLoose(var1, var2, msgAndFmt) ==
    IF Len(msgAndFmt) = 0 \/ ~IsString(msgAndFmt[1]) THEN Panic
    ELSE AttestEff(Sprint(var1) # Sprint(var2), msgAndFmt[1].s, Tail(msgAndFmt))

RECURSIVE NotEqualEff(_, _, _)
NotEqualEff(var1, var2, msgAndFmt) ==
    IF TypeName(var1) # TypeName(var2)
    THEN Pass
    ELSE Then(IF Len(msgAndFmt) = 0
              THEN NotEqualEff(var1, var2,
                       <<Str("received equal values of %#+v, expected to not equal."), var1>>)
              ELSE Pass,
              \* var1 != var2, msgAndFmt[0] and .(string) can each panic
              IF IfaceEq(var1, var2) = "panic" \/ Len(msgAndFmt) = 0
              THEN Panic
              ELSE IF ~IsString(msgAndFmt[1]) THEN Panic
              ELSE AttestEff(IfaceEq(var1, var2) = "false",
                             msgAndFmt[1].s, Tail(msgAndFmt)))

DoesNotCompareEffTyped(var1, var2, msgAndFmt) ==
    NotEqualEff(var1, var2,
        IF Len(msgAndFmt) = 0
        THEN <<Str("%#+v (%v as a string) was supposed to be similar to %#+v (string: %v)"),
               var1, var1, var2, var2>>
        ELSE msgAndFmt)

RECURSIVE DoesNotCompareEff(_, _, _)
DoesNotCompareEff(var1, var2, msgAndFmt) ==
    IF Len(msgAndFmt) = 0
    THEN DoesNotCompareEff(var1, var2,
             <<Str("%#+v (%v as a string) was supposed to be similar to %#+v (string: %v)"),
               var1, var1, var2, var2>>)
    ELSE NotEqualEff(Str(Sprint(var1)), Str(Sprint(var2)), msgAndFmt)

NotSimilarToEff(var1, var2, msgAndFmt) == DoesNotCompareEff(var1, var2, msgAndFmt)

Equals == Call("Equals", EqualsEff(inp.a, inp.b, inp.msg), Nil)

Compares == Call("Compares", ComparesEff(inp.a, inp.b, inp.msg), Nil)

SimilarTo == Call("SimilarTo", SimilarToEff(inp.a, inp.b, inp.msg), Nil)

NotEqual == Call("NotEqual", NotEqualEff(inp.a, inp.b, inp.msg), Nil)

\* Nil: variable == nil
NilEff(variable, msgAndFmt) ==
    IF Len(msgAndFmt) = 0
    THEN AttestEff(variable = Nil, "%#+v was expected to be nil, but was not!",
                   <<variable>>)
    ELSE IF ~IsString(msgAndFmt[1]) THEN Panic
    ELSE AttestEff(variable = Nil, msgAndFmt[1].s, Tail(msgAndFmt))

\* NotNil: variable != nil
NotNilEff(variable, msg, formatters) == AttestEff(variable # Nil, msg, formatters)

\* TypeIs: fmt.Sprintf("%T", value) != typestring
TypeIsEff(typestring, value, msgAndFmt) ==
    LET m == IF Len(msgAndFmt) = 0
             THEN <<Str("Type of %#v wasn't %s."), value, Str(typestring)>>
             ELSE msgAndFmt
    IN  IF ~IsString(m[1]) THEN Panic
        ELSE IF TypeName(value) # typestring
             THEN Errorf(m[1].s, Tail(m))
             ELSE Pass

\* TypeIsNot: fmt.Sprintf("%T", value) == typestring
TypeIsNotEff(typestring, value, msgAndFmt) ==
    LET m == IF Len(msgAndFmt) = 0
             THEN <<Str("Type of %#v was %s."), value, Str(typestring)>>
             ELSE msgAndFmt
    IN  IF ~IsString(m[1]) THEN Panic
        ELSE IF TypeName(value) = typestring
             THEN Errorf(m[1].s, Tail(m))
             ELSE Pass

NilCall == Call("Nil", NilEff(inp.b, inp.msg), Nil)

\* the message parameter of NotNil is declared a string
NotNil ==
    /\ Len(inp.msg) > 0 /\ IsString(inp.msg[1])
    /\ Call("NotNil", NotNilEff(inp.b, inp.msg[1].s, Tail(inp.msg)), Nil)

\* the typestring parameter of TypeIs and TypeIsNot is declared a string
TypeIs ==
    /\ IsString(inp.a)
    /\ Call("TypeIs", TypeIsEff(inp.a.s, inp.b, inp.msg), Nil)

TypeIsNot ==
    /\ IsString(inp.a)
    /\ Call("TypeIsNot", TypeIsNotEff(inp.a.s, inp.b, inp.msg), Nil)

DoesNotCompare ==
    Call("DoesNotCompare", DoesNotCompareEff(inp.a, inp.b, inp.msg), Nil)

NotSimilarTo == Call("NotSimilarTo", NotSimilarToEff(inp.a, inp.b, inp.msg), Nil)

(***************************************************************************)
(* SpecEq: a test body that calls the equality checks on a pair of         *)
(* operands (var1 = inp.a, var2 = inp.b).                                  *)
(***************************************************************************)
EqValues ==
    NumericValues \cup StringValues \cup UncomparableValues
        \cup CollidingValues \cup {Nil}

InitEq ==
    /\ InitTest
    /\ inp \in {Inp(a, b, m, NoPanicFun, Nil) : a \in EqValues, b \in EqValues, m \in MsgArgs}

NextEq ==
    \/ Equals \/ Compares \/ SimilarTo \/ NotEqual
    \/ DoesNotCompare \/ NotSimilarTo
    \/ NilCall \/ NotNil \/ TypeIs \/ TypeIsNot

SpecEq == InitEq /\ [][NextEq]_vars

\* C4: Equals(x, x) records no failure and returns normally for any value
\* x, floating-point values and values of slice, map or function type
\* included.
C4_EqualsReflexive ==
    (last.op = "Equals" /\ inp.a = inp.b /\ MsgWellTyped) => Passed

\* C5: Equals(x, y) marks the test failed whenever the runtime types of x
\* and y differ, also when both print alike, with or without a (string)
\* message.
C5_EqualsTypeMismatchFails ==
    (last.op = "Equals" /\ inp.a.t # inp.b.t /\ MsgWellTyped) => MarkedFailed

C5_Witness ==
    /\ last.op = "Equals"
    /\ inp.a = Str("1") /\ inp.b = V("int", 1, "")
    /\ Sprint(inp.a) = Sprint(inp.b)
    /\ inp.msg = <<Str("m")>>
    /\ last.fails = 2
    /\ failed

\* C6: Compares(a, b) and SimilarTo(a, b) record no failure iff the %v
\* strings of a and b are equal, whatever the runtime types, and mark the
\* test failed otherwise.
C6_ComparesByDisplay ==
    (last.op \in {"Compares", "SimilarTo"} /\ MsgWellTyped) =>
        /\ Passed <=> (Sprint(inp.a) = Sprint(inp.b))
        /\ ~Passed => MarkedFailed

C6_Witness ==
    /\ last.op = "Compares"
    /\ inp.a = Str("1") /\ inp.b = V("int", 1, "")
    /\ last.outcome = "returned" /\ last.fails = 0 /\ last.logs = <<>>

\* C7: NotEqual(x, y, msg, ...) records no failure and writes no diagnostic
\* whenever the runtime types of x and y differ, even if x and y print
\* alike.
C7_NotEqualTypeMismatchPasses ==
    (last.op = "NotEqual" /\ inp.a.t # inp.b.t /\ Len(inp.msg) > 0 /\ MsgWellTyped)
        => (Passed /\ last.logs = <<>>)

C7_Witness ==
    /\ last.op = "NotEqual"
    /\ inp.a = V("float64", 1, "") /\ inp.b = V("int", 1, "")
    /\ Sprint(inp.a) = Sprint(inp.b)
    /\ inp.msg = <<Str("m %v"), V("int", 1, "")>>
    /\ last.outcome = "returned" /\ last.fails = 0 /\ last.logs = <<>>
    /\ ~failed

(***************************************************************************)
(* Panics and errors                                                       *)
(***************************************************************************)
\* the functions given to AttestPanics / AttestNoPanic: one that returns,
\* one that panics with a string, one that calls panic(nil)
FunBehaviours ==
    {NoPanicFun,
     [panics |-> TRUE, payload |-> Str("test panic")],
     [panics |-> TRUE, payload |-> Nil]}

PanicNilError == V("*runtime.PanicNilError", 0, "")

\* what recover() can return in the deferred function once fun is done.
\* After panic(nil) it returns nil (the Go versions up to 1.20, and any
\* later one with GODEBUG=panicnil=1, the default for a module that
\* declares no newer go version) or a *runtime.PanicNilError.
Recover(fun) ==
    IF ~fun.panics THEN {Nil}
    ELSE IF fun.payload = Nil THEN {Nil, PanicNilError}
    ELSE {fun.payload}

\* the value printed for fun by %v
FunValue == V("func()", 1, "")

\* the deferred function of AttestPanics, r being the result of recover()
AttestPanicsEff(fun, r) ==
    AttestEff(r # Nil, "Function %v didn't cause a panic!", <<FunValue>>)

\* the deferred function of AttestNoPanic, r being the result of recover()
AttestNoPanicEff(fun, r) ==
    AttestEff(r = Nil, "Function %v caused a panic!", <<FunValue>>)

\* the error values of the model: nil and errors.New("boom")
Errors == {Nil, V("error", 0, "boom")}

\* err.Error()
ErrorString(err) == Str(err.s)

\* Test.errorf: the formatted diagnostic and a soft failure
errorf(format, args) == Then(Log(Sprintf(format, args)), Fail)

EatErrorEffHard(value, err) ==
    IF err # Nil
    THEN Then(Log(Sprintf("When aquiring value %#v, got error %s (%#+v)",
                          <<value, ErrorString(err), err>>)),
              FailNow)
    ELSE Pass

EatErrorEff(value, err) ==
    IF err # Nil
    THEN errorf("When aquiring value %#v, got error %s (%#+v)",
                <<value, ErrorString(err), err>>)
    ELSE Pass

StopIfEffSoft(err, msgAndFmt) ==
    IF err # Nil
    THEN LET m == IF Len(msgAndFmt) = 0
                  THEN <<Str("Fatal error: %s (%#+v)"), ErrorString(err), err>>
                  ELSE msgAndFmt
         IN  IF ~IsString(m[1]) THEN Panic
             ELSE Then(Log(Sprintf(m[1].s, Tail(m))), Fail)
    ELSE Pass

StopIfEffNoLog(err, msgAndFmt) == IF err # Nil THEN FailNow ELSE Pass

StopIfEff(err, msgAndFmt) ==
    IF err # Nil
    THEN LET m == IF Len(msgAndFmt) = 0
                  THEN <<Str("Fatal error: %s (%#+v)"), ErrorString(err), err>>
                  ELSE msgAndFmt
         IN  IF ~IsString(m[1]) THEN Panic
             ELSE Then(Log(Sprintf(m[1].s, Tail(m))), FailNow)
    ELSE Pass

FailOnErrorEff(value, err, msgAndFormat) == StopIfEff(err, msgAndFormat)

AttestPanics ==
    \E r \in Recover(inp.fun) :
        Call("AttestPanics", AttestPanicsEff(inp.fun, r), Nil)

AttestNoPanic ==
    \E r \in Recover(inp.fun) :
        Call("AttestNoPanic", AttestNoPanicEff(inp.fun, r), Nil)

EatError == Call("EatError", EatErrorEff(inp.a, inp.err), inp.a)

FailOnError == Call("FailOnError", FailOnErrorEff(inp.a, inp.err, inp.msg), inp.a)

StopIf == Call("StopIf", StopIfEff(inp.err, inp.msg), Nil)

RECURSIVE HandleMultipleEffFirst(_)
HandleMultipleEffFirst(e) ==
    IF e = <<>> THEN Pass
    ELSE IF Head(e) # Nil THEN Error(Head(e))
    ELSE HandleMultipleEffFirst(Tail(e))

RECURSIVE HandleMultipleEff(_)
\* for _, err := range e
HandleMultipleEff(e) ==
    IF e = <<>> THEN Pass
    ELSE Then(IF Head(e) # Nil THEN Error(Head(e)) ELSE Pass,
              HandleMultipleEff(Tail(e)))

RECURSIVE HandleEarlierEff(_)
\* Handle(e ...error) of the earlier variants: log.Println(err); t.Fail()
HandleEarlierEff(e) ==
    IF e = <<>> THEN Pass
    ELSE Then(IF Head(e) # Nil THEN Then(Log(Sprint(Head(e))), Fail) ELSE Pass,
              HandleEarlierEff(Tail(e)))

\* Handle(err, msgAndFmt...), reporting through t.errorf
HandleEff(err, msgAndFmt) ==
    IF err = Nil /\ Len(msgAndFmt) = 0 THEN Pass
    ELSE IF Len(msgAndFmt) = 0 THEN Error(err)
    ELSE IF err # Nil
         THEN CASE IsString(msgAndFmt[1]) ->
                      errorf(msgAndFmt[1].s, Tail(msgAndFmt))
                [] msgAndFmt[1].t = "error" ->
                      errorf("WARNING! starting at attest version 1.0, use HandleMultiple to handlemultiple error cases.",
                             <<>>)
                [] OTHER ->
                      errorf("Got type %T for second argument to Test.Handle(). If more than oneargument is specified, the second one MUST be a string.",
                             <<msgAndFmt[1]>>)
         ELSE Pass

HandleV1EffUnguarded(err, msgAndFmt) ==
    IF err = Nil /\ Len(msgAndFmt) = 0 THEN Pass
    ELSE IF Len(msgAndFmt) = 0 THEN Error(err)
    ELSE IF IsString(msgAndFmt[1])
         THEN Errorf(msgAndFmt[1].s, Tail(msgAndFmt))
         ELSE Errorf("WARNING! starting at attest version 1.0, use HandleMultiple to handlemultiple error cases.",
                     <<>>)

\* the variant of Handle that reports through t.Errorf
HandleV1Eff(err, msgAndFmt) ==
    IF err = Nil /\ Len(msgAndFmt) = 0 THEN Pass
    ELSE IF Len(msgAndFmt) = 0 THEN Error(err)
    ELSE IF err # Nil
         THEN CASE IsString(msgAndFmt[1]) ->
                      Errorf(msgAndFmt[1].s, Tail(msgAndFmt))
                [] msgAndFmt[1].t = "error" ->
                      Errorf("WARNING! starting at attest version 1.0, use HandleMultiple to handlemultiple error cases.",
                             <<>>)
                [] OTHER ->
                      Errorf("Got type %T for second argument to Test.Handle(). If more than oneargument is specified, the second one MUST be a string.",
                             <<msgAndFmt[1]>>)
         ELSE Pass

\* MessageHandle(err, msgAndFmt...): log.Printf of the template with the
\* arguments after it, then t.Fail()
MessageHandleEff(err, msgAndFmt) ==
    IF Len(msgAndFmt) = 0 THEN HandleEarlierEff(<<err>>)
    ELSE IF err # Nil
         THEN IF ~IsString(msgAndFmt[1]) THEN Panic
              ELSE Then(Log(Sprintf(msgAndFmt[1].s, Tail(msgAndFmt))), Fail)
         ELSE Pass

\* MessageHandle of the first variant: the arguments of log.Printf are
\* msgAndFmt[:1], the template itself
MessageHandleFirstEff(err, msgAndFmt) ==
    IF Len(msgAndFmt) = 0 THEN HandleEarlierEff(<<err>>)
    ELSE IF err # Nil
         THEN IF ~IsString(msgAndFmt[1]) THEN Panic
              ELSE Then(Log(Sprintf(msgAndFmt[1].s, SubSeq(msgAndFmt, 1, 1))), Fail)
         ELSE Pass

\* http.StatusBadRequest, the status code ResponseOK compares with
BadRequest == 400

\* response.Status
StatusText(code) ==
    ToString(code) \o " "
        \o (CASE code = StatusOK -> "OK"
              [] code = BadRequest -> "Bad Request"
              [] code = BadRequest + 1 -> "Unauthorized"
              [] code = BadRequest + 100 -> "Internal Server Error"
              [] OTHER -> "")

\* the message is built before the status code is looked at, and
\* msgAndFmt[0].(string) can panic
ResponseOKEff(code, msgAndFmt) ==
    LET message ==
            IF Len(msgAndFmt) = 0 THEN ""
            ELSE IF Len(msgAndFmt) = 1 THEN msgAndFmt[1].s
            ELSE Sprintf(msgAndFmt[1].s, SubSeq(msgAndFmt, 2, Len(msgAndFmt) - 1))
    IN  IF MsgPanics(msgAndFmt) THEN Panic
        ELSE IF code > BadRequest
             THEN Errorf("Got status %d: %s.\n%s",
                         <<V("int", code, ""), Str(StatusText(code)), Str(message)>>)
             ELSE Pass

HandleMultiple == Call("HandleMultiple", HandleMultipleEff(inp.errs), Nil)

HandleEarlier == Call("HandleEarlier", HandleEarlierEff(inp.errs), Nil)

Handle == Call("Handle", HandleEff(inp.err, inp.msg), Nil)

HandleV1 == Call("HandleV1", HandleV1Eff(inp.err, inp.msg), Nil)

ResponseOK == Call("ResponseOK", ResponseOKEff(inp.code, inp.msg), Nil)

MessageHandle == Call("MessageHandle", MessageHandleEff(inp.err, inp.msg), Nil)

MessageHandleFirst ==
    Call("MessageHandleFirst", MessageHandleFirstEff(inp.err, inp.msg), Nil)

(***************************************************************************)
(* SpecFlow: a test body that calls the panic and error checks, with a     *)
(* value inp.a, an error inp.err and a function inp.fun; or with a list of *)
(* errors inp.errs; or with the status code inp.code of a response.        *)
(***************************************************************************)
FlowValues == {Str("success"), V("int", 1, ""), Nil}

\* the message arguments of MsgArgs, and an error in the place of the
\* message
FlowMsgs == MsgArgs \cup {<<V("error", 0, "bang")>>}

FlowInputs ==
    {Inp(a, Nil, m, f, e) :
        a \in FlowValues, m \in FlowMsgs, f \in FunBehaviours, e \in Errors}

RECURSIVE SeqsUpTo(_, _)
\* the sequences over S of length at most n
SeqsUpTo(S, n) ==
    IF n = 0 THEN {<<>>}
    ELSE LET shorter == SeqsUpTo(S, n - 1)
         IN  shorter \cup {Append(q, x) : q \in shorter, x \in S}

ErrsInputs ==
    {[Inp(Nil, Nil, <<>>, NoPanicFun, Nil) EXCEPT !.errs = es] :
        es \in SeqsUpTo(Errors \cup {V("error", 0, "bang")}, MaxErrs)}

StatusCodes == {StatusOK, BadRequest - 1, BadRequest, BadRequest + 1, BadRequest + 100}

CodeInputs ==
    {[Inp(Nil, Nil, m, NoPanicFun, Nil) EXCEPT !.code = c] :
        m \in MsgArgs, c \in StatusCodes}

InitFlow ==
    /\ InitTest
    /\ inp \in FlowInputs \cup ErrsInputs \cup CodeInputs

NextFlow ==
    \/ AttestPanics \/ AttestNoPanic \/ EatError \/ FailOnError
    \/ StopIf \/ HandleMultiple \/ HandleEarlier \/ Handle \/ HandleV1
    \/ ResponseOK \/ MessageHandle \/ MessageHandleFirst

SpecFlow == InitFlow /\ [][NextFlow]_vars

\* C8: AttestPanics(fn, args) records no failure if fn panics and marks the
\* test failed if fn returns normally; AttestNoPanic(fn, args) gives the
\* opposite verdict in every case.
C8_PanicVerdicts ==
    /\ last.op = "AttestPanics" =>
            IF inp.fun.panics THEN Passed ELSE MarkedFailed
    /\ last.op = "AttestNoPanic" =>
            IF inp.fun.panics THEN MarkedFailed ELSE Passed

\* C9: EatError(value, err) always returns value; it records no failure
\* when err is nil and exactly one soft failure when err is non-nil.
C9_EatError ==
    last.op = "EatError" =>
        /\ last.outcome = "returned" /\ last.ret = inp.a
        /\ status = "running"
        /\ inp.err = Nil => (last.fails = 0 /\ last.logs = <<>>)
        /\ inp.err # Nil => (last.fails = 1 /\ failed)

C9_Witness ==
    /\ last.op = "EatError"
    /\ inp.a = Str("success") /\ inp.err # Nil
    /\ last.ret = Str("success")
    /\ last.fails = 1 /\ failed /\ status = "running"
    /\ last.logs = <<"When aquiring value \"success\", got error boom (&errors.errorString{s:\"boom\"})">>

\* the state part of C10
FailOnErrorVerdict ==
    (last.op = "FailOnError" /\ MsgWellTyped) =>
        /\ inp.err = Nil =>
                (Passed /\ last.ret = inp.a /\ status = "running")
        /\ inp.err # Nil =>
                (failed /\ last.fails = 1 /\ last.outcome = "goexit"
                    /\ status = "aborted")

\* C10: FailOnError(value, err, ...) returns value and records no failure
\* when err is nil; when err is non-nil it marks the test failed and aborts
\* the test unit, and no later statement of the test unit runs.
C10_FailOnError ==
    [](FailOnErrorVerdict) /\ [][status = "aborted" => UNCHANGED vars]_vars

C10_Witness ==
    /\ last.op = "FailOnError"
    /\ inp.err # Nil /\ inp.msg = <<>>
    /\ failed /\ status = "aborted"
    /\ pc < MaxStmts
    /\ last.logs = <<"Fatal error: boom (&errors.errorString{s:\"boom\"})">>

(***************************************************************************)
(* Attest and its mirrors                                                  *)
(***************************************************************************)
ThatEff(boolean, message, formatters) == AttestEff(boolean, message, formatters)

AttestNotEff(that, message, formatters) == AttestEff(~that, message, formatters)

NotEff(that, message, formatters) == AttestNotEff(that, message, formatters)

\* the message parameter of Attest, That, AttestNot, Not and NotNil is
\* declared a string: only such calls compile
MsgTyped == Len(inp.msg) > 0 /\ IsString(inp.msg[1])

Attest ==
    /\ MsgTyped
    /\ Call("Attest", AttestEff(inp.that, inp.msg[1].s, Tail(inp.msg)), Nil)

That ==
    /\ MsgTyped
    /\ Call("That", ThatEff(inp.that, inp.msg[1].s, Tail(inp.msg)), Nil)

AttestNot ==
    /\ MsgTyped
    /\ Call("AttestNot", AttestNotEff(inp.that, inp.msg[1].s, Tail(inp.msg)), Nil)

Not ==
    /\ MsgTyped
    /\ Call("Not", NotEff(inp.that, inp.msg[1].s, Tail(inp.msg)), Nil)

\* what a callback given to AttestOrDo does with the Test and its
\* arguments: log them and return, panic, or stop the test with FailNow
Callbacks == {"returns", "panics", "failnow"}

RECURSIVE Join(_)
\* the arguments a callback received, as it prints them
Join(args) ==
    IF args = <<>> THEN "" ELSE " " \o Sprint(Head(args)) \o Join(Tail(args))

\* callback(t, cbArgs...)
CallbackEff(cb, cbArgs) ==
    CASE cb = "returns" -> EffT("returned", 0, <<"callback" \o Join(cbArgs)>>, <<"callback">>)
      [] cb = "panics" -> EffT("panic", 0, <<>>, <<"callback">>)
      [] OTHER -> Then(EffT("returned", 0, <<>>, <<"callback">>), FailNow)

AttestOrDoEffFailFirst(that, cb, cbArgs) ==
    IF ~that THEN Then(Fail, CallbackEff(cb, cbArgs)) ELSE Pass

AttestOrDoEff(that, cb, cbArgs) ==
    IF ~that THEN Then(CallbackEff(cb, cbArgs), Fail) ELSE Pass

AttestOrDo == Call("AttestOrDo", AttestOrDoEff(inp.that, inp.cb, inp.msg), Nil)

(***************************************************************************)
(* SpecAttest: a test body that calls Attest, That, AttestNot and Not with *)
(* a condition inp.that and a message inp.msg, and AttestOrDo with the     *)
(* condition, a callback inp.cb and the arguments inp.msg.                 *)
(***************************************************************************)
\* a message, then its operands: a plain string, a format with its
\* operand, a format without operand, a plain string with an operand
AttestMsgs ==
    {<<Str("m")>>, <<Str("m %v"), V("int", 1, "")>>, <<Str("m %v")>>,
     <<Str("m"), Str("x")>>, <<Str("m %v"), Nil>>}

InitAttest ==
    /\ InitTest
    /\ inp \in {[Inp(Nil, Nil, m, NoPanicFun, Nil) EXCEPT !.that = c, !.cb = k] :
                    m \in AttestMsgs \cup MsgArgs, c \in BOOLEAN, k \in Callbacks}

NextAttest == Attest \/ That \/ AttestNot \/ Not \/ AttestOrDo

SpecAttest == InitAttest /\ [][NextAttest]_vars

\* the message a call resolves from its message arguments: the message
\* itself when nothing follows it, the message as format otherwise
Resolved(m) == IF Len(m) = 1 THEN m[1].s ELSE Sprintf(m[1].s, Tail(m))

\* the condition the last call of the Attest family failed on
AttestFails ==
    IF last.op \in {"Attest", "That"} THEN ~inp.that ELSE inp.that

\* C11: Attest(condition, message, ...) with a false condition emits the
\* resolved message, marks the test failed and returns normally; the same
\* holds for That, and for AttestNot and Not exactly when the condition is
\* true; otherwise nothing is recorded.
C11_AttestSoftFailure ==
    last.op \in {"Attest", "That", "AttestNot", "Not"} =>
        /\ last.outcome = "returned" /\ status = "running"
        /\ AttestFails =>
              /\ last.logs = <<Resolved(inp.msg)>>
              /\ last.trace = <<"log", "fail">>
              /\ last.fails = 1 /\ failed
        /\ ~AttestFails => (last.fails = 0 /\ last.logs = <<>>)

C11_Witness ==
    /\ last.op = "Not"
    /\ inp.that = TRUE
    /\ inp.msg = <<Str("m %v"), V("int", 1, "")>>
    /\ last.logs = <<"m 1">>
    /\ last.fails = 1 /\ failed /\ status = "running"

\* the state part of C12
StopIfVerdict ==
    (last.op = "StopIf" /\ MsgWellTyped) =>
        /\ inp.err = Nil =>
                (Passed /\ last.logs = <<>> /\ status = "running")
        /\ inp.err # Nil =>
                /\ last.trace = <<"log", "failnow">>
                /\ Len(last.logs) = 1
                /\ failed /\ last.outcome = "goexit" /\ status = "aborted"

\* C12: StopIf(err, ...) with a non-nil err emits the message, marks the
\* test failed and aborts the test unit, in that order, and no later
\* statement of the test unit runs; with a nil err it does nothing and the
\* body goes on.
C12_StopIf ==
    [](StopIfVerdict) /\ [][status = "aborted" => pc' = pc /\ last' = last]_vars

C12_Witness ==
    /\ last.op = "StopIf"
    /\ inp.err # Nil /\ inp.msg = <<Str("m %v"), V("int", 1, "")>>
    /\ last.logs = <<"m 1">>
    /\ last.trace = <<"log", "failnow">>
    /\ failed /\ status = "aborted" /\ pc < MaxStmts

\* the number of non-nil entries of a list of errors
NonNil(es) == Cardinality({i \in 1..Len(es) : es[i] # Nil})

\* C13: HandleMultiple, and Handle(e ...error) of the earlier variant, log
\* a diagnostic and mark the test failed once for each non-nil entry of
\* their arguments, go on after the first one, and record nothing when all
\* entries are nil.
C13_HandleEveryError ==
    last.op \in {"HandleMultiple", "HandleEarlier"} =>
        /\ last.outcome = "returned" /\ status = "running"
        /\ last.fails = NonNil(inp.errs)
        /\ Len(last.logs) = NonNil(inp.errs)
        /\ last.trace = [i \in 1..(2 * NonNil(inp.errs)) |->
                            IF i % 2 = 1 THEN "log" ELSE "fail"]
        /\ NonNil(inp.errs) > 0 => failed

C13_Witness ==
    /\ last.op = "HandleMultiple"
    /\ inp.errs = <<V("error", 0, "boom"), Nil, V("error", 0, "bang")>>
    /\ last.logs = <<"boom", "bang">>
    /\ last.fails = 2 /\ failed /\ status = "running"

\* C19: Handle(err, msgAndFmt...) marks the test failed exactly once if err
\* is non-nil and records nothing if err is nil, whatever the extra
\* arguments: a string, an error or a value of another type.
C19_HandleSingleError ==
    last.op \in {"Handle", "HandleV1"} =>
        /\ last.outcome = "returned" /\ status = "running"
        /\ inp.err # Nil =>
                (last.fails = 1 /\ Len(last.logs) = 1 /\ failed)
        /\ inp.err = Nil => (last.fails = 0 /\ last.logs = <<>>)

C19_Witness ==
    /\ last.op = "HandleV1"
    /\ inp.err # Nil /\ inp.msg = <<V("int", 1, "")>>
    /\ last.logs = <<"Got type int for second argument to Test.Handle(). If more than oneargument is specified, the second one MUST be a string.">>
    /\ last.fails = 1 /\ failed /\ status = "running"

\* C20: ResponseOK(response) records no failure iff the status code of the
\* response is less than 400; every status code of 400 or above marks the
\* test failed.
C20_ResponseOK ==
    (last.op = "ResponseOK" /\ MsgWellTyped) =>
        /\ Passed <=> inp.code < 400
        /\ inp.code >= 400 => MarkedFailed

(***************************************************************************)
(* Operands of two kinds, unsupported operands, the sign checks as         *)
(* shortcuts (SpecOrd)                                                     *)
(***************************************************************************)
\* C15: GreaterThan and LessThan on operands of two different kinds mark
\* the test failed, emit a diagnostic and return; no panic leaves the call
\* (calls without a message or with a string message).
C15_MixedKindsFail ==
    (last.op \in {"GreaterThan", "LessThan"} /\ inp.a.t # inp.b.t
        /\ MsgWellTyped) =>
            /\ MarkedFailed
            /\ Len(last.logs) >= 1
            /\ status = "running"

\* strings.Contains(s, sub)
Contains(s, sub) ==
    \E i \in 1..(Len(s) - Len(sub) + 1) : SubSeq(s, i, i + Len(sub) - 1) = sub

\* a diagnostic of the last call names the %T of both operands
NamesBothTypes ==
    \E i \in 1..Len(last.logs) :
        /\ Contains(last.logs[i], TypeName(inp.a))
        /\ Contains(last.logs[i], TypeName(inp.b))

\* C16: on a checked value outside the seven supported kinds, GreaterThan,
\* LessThan, Positive and Negative mark the test failed exactly once,
\* return without a panic and leave the test unit running, and the
\* diagnostic of GreaterThan and LessThan names the types of both operands.
C16_UnsupportedOperand ==
    (last.op \in {"GreaterThan", "LessThan", "Positive", "Negative"}
        /\ inp.b.t \notin NumericKinds) =>
            /\ last.outcome = "returned" /\ status = "running"
            /\ last.fails = 1 /\ failed
            /\ last.trace = <<"log", "fail">>
            /\ last.op \in {"GreaterThan", "LessThan"} => NamesBothTypes

\* the verdict a call leaves: no failure, a failure, or a panic
Verdict(e) ==
    IF e.outcome = "panic" THEN "panic"
    ELSE IF e.fails > 0 THEN "fail" ELSE "pass"

PairValues ==
    {V("int", 0, ""), V("int", 1, ""), V("int8", 1, ""), V("float64", 1, ""),
     NaN("float64"), Str("1"), Str("x"), V("uint", 1, ""), Nil}
        \cup {V("[]int", 1, "")} \cup CollidingValues

PairInputs ==
    {Inp(a, b, m, NoPanicFun, Nil) : a \in PairValues, b \in PairValues, m \in MsgArgs}

AttestInputs ==
    {[Inp(Nil, Nil, m, NoPanicFun, Nil) EXCEPT !.that = c, !.cb = k] :
        m \in AttestMsgs \cup MsgArgs, c \in BOOLEAN, k \in Callbacks}

Init ==
    /\ InitTest
    /\ inp \in PairInputs \cup FlowInputs \cup ErrsInputs \cup CodeInputs
                \cup AttestInputs

Next == NextOrd \/ NextEq \/ NextFlow \/ NextAttest

Spec == Init /\ [][Next]_vars

\* C14 as stated: a call of any assertion invokes the failure primitive at
\* most once (the handlers of several errors, which report each error,
\* apart).
C14_OneFailurePerCall ==
    last.op \notin {"HandleMultiple", "HandleEarlier"} => last.fails <= 1

\* C14: a call of any assertion but Equals invokes the failure primitive
\* at most once; Equals invokes it at most twice, and twice only when the
\* types of its operands print different names (the type check and the
\* comparison both fail); the handlers of several errors invoke it once
\* for each non-nil error.
C14_FailuresPerCall ==
    /\ last.op \notin {"Equals", "HandleMultiple", "HandleEarlier"} =>
            last.fails <= 1
    /\ last.op = "Equals" =>
            /\ last.fails <= 2
            /\ last.fails = 2 <=> (~TypeGate(inp.a, inp.b) /\ MsgWellTyped)
    /\ last.op \in {"HandleMultiple", "HandleEarlier"} =>
            last.fails = NonNil(inp.errs)

C14_Witness ==
    /\ last.op = "Equals"
    /\ inp.a = V("int", 1, "") /\ inp.b = Str("1") /\ inp.msg = <<Str("m")>>
    /\ last.fails = 2
    /\ last.logs = <<"m", "m">>
    /\ last.trace = <<"log", "fail", "log", "fail">>
    /\ status = "running"

\* the checks that mark the test failed with testing.T.Fail
SoftOps ==
    {"Attest", "Equals", "NotEqual", "Compares", "GreaterThan", "LessThan",
     "Positive", "Negative", "Handle", "HandleV1", "HandleMultiple", "EatError"}

\* C17: after a call of a soft assertion that marked the test failed the
\* test unit is still running, and a call of AttestPanics or AttestNoPanic
\* returns to its caller whether or not the function panicked.
C17_SoftFailureGoesOn ==
    /\ (last.op \in SoftOps /\ last.fails >= 1) =>
            (last.outcome = "returned" /\ status = "running")
    /\ last.op \in {"AttestPanics", "AttestNoPanic"} =>
            (last.outcome = "returned" /\ status = "running")

(***************************************************************************)
(* The two checks of Equals (SpecEq)                                       *)
(***************************************************************************)
\* C21 as stated: when the types of its operands differ, Equals records two
\* failures, the type check first with a diagnostic naming both types,
\* the comparison second.
C21_TwoChecksAsStated ==
    (last.op = "Equals" /\ inp.a.t # inp.b.t /\ MsgWellTyped) =>
        /\ last.outcome = "returned"
        /\ last.fails = 2
        /\ last.trace = <<"log", "fail", "log", "fail">>
        /\ Contains(last.logs[1], TypeName(inp.a))
        /\ Contains(last.logs[1], TypeName(inp.b))

\* C21: when the types of its operands print different names, Equals records
\* two failures in a fixed order and returns: the type check logs and fails
\* first, the comparison logs and fails second. Without a message the
\* first diagnostic is the type-mismatch text naming both types and the
\* second the text of the comparison; with a message both diagnostics are
\* the caller's message. Operands of two types that print one name pass
\* the type check and record the failure of the comparison alone.
C21_TwoChecksInOrder ==
    (last.op = "Equals" /\ MsgWellTyped) =>
        /\ ~TypeGate(inp.a, inp.b) =>
                /\ last.outcome = "returned" /\ status = "running"
                /\ last.fails = 2
                /\ last.trace = <<"log", "fail", "log", "fail">>
                /\ inp.msg = <<>> =>
                        /\ last.logs[1] =
                              Sprintf("%#v of type %T didn't match the type of %#v, %T; so they can't be compared. ",
                                      <<inp.a, inp.a, inp.b, inp.b>>)
                        /\ Contains(last.logs[1], TypeName(inp.a))
                        /\ Contains(last.logs[1], TypeName(inp.b))
                        /\ last.logs[2] =
                              Sprintf("Expected %#v (%v) was actually %#v (%v)",
                                      <<inp.a, inp.a, inp.b, inp.b>>)
                /\ inp.msg # <<>> =>
                        last.logs = <<Resolved(inp.msg), Resolved(inp.msg)>>
        /\ (TypeGate(inp.a, inp.b) /\ inp.a.t # inp.b.t) =>
                (last.fails = 1 /\ last.trace = <<"log", "fail">>)

C21_Witness ==
    /\ last.op = "Equals"
    /\ inp.a = V("int", 1, "") /\ inp.b = V("int8", 1, "") /\ inp.msg = <<>>
    /\ last.logs = <<"1 of type int didn't match the type of 1, int8; so they can't be compared. ",
                     "Expected 1 (1) was actually 1 (1)">>
    /\ last.trace = <<"log", "fail", "log", "fail">>
    /\ last.fails = 2 /\ failed /\ status = "running"

(***************************************************************************)
(* The diagnostic of AttestNoPanic (SpecFlow)                              *)
(***************************************************************************)
\* C22: when the function given to AttestNoPanic panics with a non-nil
\* value, the call marks the test failed and its diagnostic shows the
\* recovered value.
C22_NoPanicReportsPayload ==
    (last.op = "AttestNoPanic" /\ inp.fun.panics /\ inp.fun.payload # Nil) =>
        /\ MarkedFailed
        /\ \E i \in 1..Len(last.logs) :
                Contains(last.logs[i], Sprint(inp.fun.payload))

(***************************************************************************)
(* AttestOrDo (SpecAttest)                                                 *)
(***************************************************************************)
\* C23: AttestOrDo with a false condition invokes the callback once, with
\* the arguments it was given, and marks the test failed only after the
\* callback has returned; with a true condition it does not invoke the
\* callback and records nothing. A callback that panics or stops the test
\* does not return, and AttestOrDo marks nothing after it.
C23_AttestOrDo ==
    last.op = "AttestOrDo" =>
        /\ inp.that => (last.trace = <<>> /\ last.logs = <<>> /\ last.fails = 0
                            /\ last.outcome = "returned")
        /\ (~inp.that /\ inp.cb = "returns") =>
                /\ last.trace = <<"callback", "fail">>
                /\ last.logs = <<"callback" \o Join(inp.msg)>>
                /\ last.fails = 1 /\ failed /\ last.outcome = "returned"
        /\ (~inp.that /\ inp.cb = "panics") =>
                (last.trace = <<"callback">> /\ last.fails = 0
                    /\ last.outcome = "panic")
        /\ (~inp.that /\ inp.cb = "failnow") =>
                (last.trace = <<"callback", "failnow">> /\ last.outcome = "goexit")

C23_Witness ==
    /\ last.op = "AttestOrDo"
    /\ ~inp.that /\ inp.cb = "returns"
    /\ inp.msg = <<Str("m %v"), V("int", 1, "")>>
    /\ last.logs = <<"callback m %v 1">>
    /\ last.trace = <<"callback", "fail">>
    /\ failed /\ status = "running"

(***************************************************************************)
(* MessageHandle (SpecFlow)                                                *)
(***************************************************************************)
\* C26: in each variant of MessageHandle a non-nil err marks the test
\* failed once and logs the template formatted with the arguments that
\* follow it, a nil err records nothing, and without message arguments
\* the call does what Handle(err) does.
C26_MessageHandle ==
    (last.op \in {"MessageHandle", "MessageHandleFirst"} /\ MsgWellTyped) =>
        /\ last.outcome = "returned" /\ status = "running"
        /\ inp.err = Nil => (last.fails = 0 /\ last.logs = <<>>)
        /\ inp.err # Nil =>
                /\ last.fails = 1 /\ failed
                /\ last.trace = <<"log", "fail">>
                /\ last.logs = IF inp.msg = <<>> THEN <<Sprint(inp.err)>>
                               ELSE <<Sprintf(inp.msg[1].s, Tail(inp.msg))>>

(***************************************************************************)
(* NotEqual without a message (SpecEq)                                     *)
(***************************************************************************)
\* C27: NotEqual(a, b) with no message, on operands of one comparable
\* type, returns without a panic, records one failure if a == b and none
\* if a != b.
C27_NotEqualNoMessage ==
    (last.op = "NotEqual" /\ inp.msg = <<>> /\ inp.a.t = inp.b.t
        /\ inp.a.t \notin UncomparableTypes) =>
            /\ last.outcome = "returned" /\ status = "running"
            /\ IfaceEq(inp.a, inp.b) = "true" => last.fails = 1
            /\ IfaceEq(inp.a, inp.b) = "false" => last.fails = 0

(***************************************************************************)
(* DoesNotCompare and NotSimilarTo (SpecEq)                                *)
(***************************************************************************)
\* C25: DoesNotCompare(a, b) and NotSimilarTo(a, b) mark the test failed,
\* once, iff the %v texts of a and b are equal, whatever the types of a
\* and b and with or without a message, which is the opposite of the
\* verdict of Compares(a, b); without a message the call returns after one
\* self-call, its diagnostic being the default message.
C25_DoesNotCompare ==
    (last.op \in {"DoesNotCompare", "NotSimilarTo"} /\ MsgWellTyped) =>
        /\ last.outcome = "returned" /\ status = "running"
        /\ last.fails = (IF Sprint(inp.a) = Sprint(inp.b) THEN 1 ELSE 0)
        /\ Verdict(last) = "fail"
                <=> Verdict(ComparesEff(inp.a, inp.b, inp.msg)) = "pass"
        /\ (inp.msg = <<>> /\ last.fails = 1) =>
                last.logs = <<Sprintf("%#+v (%v as a string) was supposed to be similar to %#+v (string: %v)",
                                      <<inp.a, inp.a, inp.b, inp.b>>)>>

C25_Witness ==
    /\ last.op = "DoesNotCompare"
    /\ inp.a = V("int", 1, "") /\ inp.b = Str("1") /\ inp.msg = <<>>
    /\ last.logs = <<"1 (1 as a string) was supposed to be similar to \"1\" (string: 1)">>
    /\ last.fails = 1 /\ failed /\ status = "running"

(***************************************************************************)
(* The optional message arguments (Spec)                                   *)
(***************************************************************************)
\* the checks that take optional message arguments
MsgOps ==
    {"Equals", "Nil", "GreaterThan", "LessThan", "Positive", "Negative",
     "TypeIs", "StopIf", "Handle", "HandleV1", "ResponseOK"}

\* C24: a failing call of a check that takes optional message arguments,
\* given one string, emits that string unchanged; given a string and more
\* arguments, emits the string formatted with all of those arguments (in
\* ResponseOK, as the last line of its diagnostic); given none, emits a
\* default diagnostic (the ordering and sign checks on a value of a
\* supported kind).
C24_ThreeWayRule ==
    (last.op \in MsgOps /\ MsgWellTyped /\ last.fails >= 1
        /\ (last.op \in {"GreaterThan", "LessThan", "Positive", "Negative"}
                => inp.b.t \in NumericKinds)) =>
        /\ last.logs # <<>>
        /\ (inp.msg # <<>> /\ last.op # "ResponseOK") =>
                \A i \in 1..Len(last.logs) : last.logs[i] = Msg("", inp.msg)
        /\ (inp.msg # <<>> /\ last.op = "ResponseOK") =>
                last.logs = <<Sprintf("Got status %d: %s.\n%s",
                                      <<V("int", inp.code, ""), Str(StatusText(inp.code)),
                                        Str(Msg("", inp.msg))>>)>>

ExpectationHolds ==
    CASE last.op \in {"Attest", "That"} -> inp.that
      [] last.op = "Equals" -> inp.a = inp.b
      [] last.op = "NotEqual" -> inp.a # inp.b
      [] last.op = "Compares" -> Sprint(inp.a) = Sprint(inp.b)
      [] last.op = "GreaterThan" -> SameKind /\ NumGt(inp.b, inp.a)
      [] last.op = "LessThan" -> SameKind /\ NumLt(inp.b, inp.a)
      [] last.op = "Positive" -> inp.b.t \in NumericKinds /\ NumGt(inp.b, Zero(inp.b.t))
      [] last.op = "Negative" -> inp.b.t \in NumericKinds /\ NumLt(inp.b, Zero(inp.b.t))
      [] last.op = "Nil" -> inp.b = Nil
      [] last.op = "NotNil" -> inp.b # Nil
      [] last.op \in {"Handle", "HandleV1", "StopIf", "EatError"} -> inp.err = Nil
      [] last.op = "HandleMultiple" -> NonNil(inp.errs) = 0
      [] OTHER -> FALSE

\* C29: a call whose expectation holds returns and leaves the failed flag
\* and the diagnostic sink as they were (calls without a message or with
\* a string message).
C29_PassingCallChangesNothing ==
    [][(ExpectationHolds' /\ MsgWellTyped /\ pc' = pc + 1) =>
            /\ failed' = failed
            /\ last'.logs = <<>> /\ last'.trace = <<>>
            /\ last'.outcome = "returned" /\ status' = "running"]_vars

(***************************************************************************)
(* The variants of the greater-than and positive checks (SpecOrd)          *)
(***************************************************************************)
\* C30: on the same operands every variant of AttestGreaterThan gives the
\* verdict of GreaterThan and every variant of AttestPositive the verdict
\* of Positive (calls without a message).
C30_VariantsAgree ==
    /\ last.op \in {"AttestGreaterThanFirst", "AttestGreaterThan"} =>
            Verdict(last) = Verdict(GreaterThanEff(inp.a, inp.b, <<>>))
    /\ last.op \in {"AttestPositiveFirst", "AttestPositive"} =>
            Verdict(last) = Verdict(PositiveEff(inp.b, <<>>))

====
